---- MODULE Spec2Model ----
(***************************************************************************)
(* A model of gmft/table_detection.py: position_words, CroppedTable,       *)
(* RotatedCroppedTable and TableDetector.extract.                          *)
(*                                                                         *)
(* Coordinates are whole pdf units.  Python's None is the record None, a   *)
(* str | tuple argument is a tagged record, and a float that is not a      *)
(* whole number is kept as an exact fraction: smallest_supported_text_     *)
(* height in tenths, _word_height in 1/WordHeightDen.  bbox is always      *)
(* given as four numbers (never as a Rect), and records handed to          *)
(* from_dict hold every required key.  visualize and from_image_only are   *)
(* left out.                                                               *)
(***************************************************************************)
EXTENDS Integers, Sequences, FiniteSets

VARIABLES table, ret

vars == <<table, ret>>

(***************************************************************************)
(* Python values                                                           *)
(***************************************************************************)
None == [tag |-> "None"]

Some(v) == [tag |-> "value", v |-> v]

Auto == [tag |-> "auto"]

NaN == [tag |-> "nan"]

Num(n) == [tag |-> "num", n |-> n]

NoTable == [kind |-> "none"]

Abs(n) == IF n < 0 THEN -n ELSE n

Max(a, b) == IF a >= b THEN a ELSE b

(***************************************************************************)
(* gmft.common.Rect                                                        *)
(***************************************************************************)
Rect(bbox) == [xmin |-> bbox[1], ymin |-> bbox[2], xmax |-> bbox[3], ymax |-> bbox[4]]

Rect_bbox(r) == <<r.xmin, r.ymin, r.xmax, r.ymax>>

Rect_width(r) == r.xmax - r.xmin

Rect_height(r) == r.ymax - r.ymin

\* boundary-inclusive: touching edges count as intersecting
is_intersecting(a, b) ==
    /\ a.xmin <= b.xmax
    /\ b.xmin <= a.xmax
    /\ a.ymin <= b.ymax
    /\ b.ymin <= a.ymax

(***************************************************************************)
(* The page collaborator (gmft.pdf_bindings.common.BasePage)               *)
(***************************************************************************)
Pages == {"pA", "pB"}

get_positions_and_text(page) ==
    IF page = "pA"
    THEN << <<12, 12, 20, 13, "a">>, <<22, 12, 30, 13, "b">>,
            <<12, 20, 18, 22, "c">>, <<40, 0, 44, 100, "d">>,
            <<60, 60, 70, 60, "e">> >>
    ELSE << <<5, 5, 9, 5, "x">>, <<50, 28, 56, 32, "y">> >>

get_filename(page) == IF page = "pA" THEN "a.pdf" ELSE "b.pdf"

page_number(page) == IF page = "pA" THEN 0 ELSE 1

\* the raster the page renders for a rectangle at a resolution
get_image(page, dpi, rect) ==
    [kind |-> "image", page |-> page, dpi |-> dpi, crop |-> Rect_bbox(rect),
     pad |-> <<0, 0, 0, 0>>, rot |-> 0]

\* PIL.ImageOps.expand(img, padding, fill="white")
ImageOps_expand(img, padding) == [img EXCEPT !.pad = padding]

\* PIL.Image.rotate(angle, expand=True): counter-clockwise, whole turns drop out
Image_rotate(img, angle) == [img EXCEPT !.rot = (img.rot + angle) % 360]

(***************************************************************************)
(* position_words                                                          *)
(***************************************************************************)
\* lines 45-48: what is appended for one later word
position_words_append(lines, y1, prev_bottom, text, y_gap) ==
    IF Abs(y1 - prev_bottom) >= y_gap
    THEN lines \o "\n" \o text
    ELSE lines \o " " \o text

\* a running maximum in place of the bottom of the word just before
position_words_prev_max(prev_bottom, y1) == Max(prev_bottom, y1)

\* line 49: the bottom the next word is compared with
position_words_prev(prev_bottom, y1) == y1

RECURSIVE position_words_loop(_, _, _, _, _)
position_words_loop(words, i, prev_bottom, lines, y_gap) ==
    IF i > Len(words)
    THEN lines
    ELSE position_words_loop(words, i + 1,
             position_words_prev(prev_bottom, words[i][4]),
             position_words_append(lines, words[i][4], prev_bottom, words[i][5], y_gap),
             y_gap)

position_words(words, y_gap) ==
    IF Len(words) = 0
    THEN ""
    ELSE position_words_loop(words, 2, words[1][4], words[1][5], y_gap)

(***************************************************************************)
(* CroppedTable and RotatedCroppedTable: construction                      *)
(***************************************************************************)
Raise(e) == [kind |-> "raise", exc |-> e]

EmptyList == [tag |-> "list", v |-> <<>>]

CroppedTable_init(page, bbox, confidence_score, label) ==
    [kind |-> "CroppedTable", page |-> page, rect |-> Rect(bbox),
     confidence_score |-> confidence_score, label |-> label,
     _img |-> None, _img_dpi |-> None, _img_padding |-> None,
     _img_margin |-> None, _word_height |-> None, _captions |-> None]

\* any whole angle below a full turn
angle_supported_any(angle) == angle \in 0..359

\* line 418: angle not in [0, 90, 180, 270]
angle_supported(angle) == angle \in {0, 90, 180, 270}

RotatedCroppedTable_init(page, bbox, confidence_score, angle, label) ==
    IF ~angle_supported(angle)
    THEN Raise("ValueError")
    ELSE [kind |-> "RotatedCroppedTable", page |-> page, rect |-> Rect(bbox),
          confidence_score |-> confidence_score, label |-> label, angle |-> angle,
          _img |-> None, _img_dpi |-> None, _img_padding |-> None,
          _img_margin |-> None, _word_height |-> None, _captions |-> None]

IsRotated(t) == t.kind = "RotatedCroppedTable"

IsTable(t) == t.kind \in {"CroppedTable", "RotatedCroppedTable"}

(***************************************************************************)
(* image                                                                   *)
(***************************************************************************)
\* lines 106-113: the padding actually applied; int() of a value that is
\* not negative is its floor
image_padding(rect, dpi, padding) ==
    IF padding.tag = "auto"
    THEN LET pad == (Max(Rect_width(rect), Rect_height(rect)) * dpi) \div 720
         IN  Some(<<pad, pad, pad, pad>>)
    ELSE IF padding.tag = "None"
         THEN Some(<<0, 0, 0, 0>>)
         ELSE padding

\* lines 117-118
image_margin(margin) ==
    IF margin.tag = "auto" THEN Some(<<30, 30, 30, 30>>) ELSE margin

\* lines 119-122
image_rect(rect, margin) ==
    IF margin.tag # "None"
    THEN Rect(<<rect.xmin - margin.v[1], rect.ymin - margin.v[2],
                rect.xmax + margin.v[3], rect.ymax + margin.v[4]>>)
    ELSE rect

\* the grown crop rectangle written over rect
image_store_rect(t, img, dpi, padding, margin) ==
    [t EXCEPT !._img = Some(img), !._img_dpi = Some(dpi),
              !._img_padding = padding, !._img_margin = margin,
              !.rect = Rect(img.crop)]

\* the padding cached by the first call only
image_store_stale_padding(t, img, dpi, padding, margin) ==
    [t EXCEPT !._img = Some(img), !._img_dpi = Some(dpi),
              !._img_padding = IF t._img_padding = None THEN padding ELSE @,
              !._img_margin = margin]

\* lines 126-129: what a call that rendered leaves in the cache
image_store(t, img, dpi, padding, margin) ==
    [t EXCEPT !._img = Some(img), !._img_dpi = Some(dpi),
              !._img_padding = padding, !._img_margin = margin]

\* the region after the call and what the call returns; renders: whether
\* page.get_image produced a raster (it raises otherwise)
CroppedTable_image(t, dpi, padding, margin, renders) ==
    LET dpi1     == IF dpi.tag = "None" THEN 72 ELSE dpi.v
        padding1 == image_padding(t.rect, dpi1, padding)
        margin1  == image_margin(margin)
        rect     == image_rect(t.rect, margin1)
        img      == ImageOps_expand(get_image(t.page, dpi1, rect), padding1.v)
        self     == image_store(t, img, dpi1, padding1, margin1)
    IN  IF ~renders
        THEN [self |-> t, val |-> Raise("RenderError")]
        ELSE [self |-> self, val |-> self._img.v]

\* lines 428-434: what the rotated variant returns for the base class's image
rotated_image_result(angle, img) ==
    IF angle # 0 THEN Image_rotate(img, 0 - angle) ELSE img

RotatedCroppedTable_image(t, dpi, padding, margin, renders) ==
    LET r == CroppedTable_image(t, dpi, padding, margin, renders)
    IN  IF r.val.kind = "raise"
        THEN r
        ELSE [self |-> r.self, val |-> rotated_image_result(t.angle, r.val)]

image(t, dpi, padding, margin, renders) ==
    IF IsRotated(t)
    THEN RotatedCroppedTable_image(t, dpi, padding, margin, renders)
    ELSE CroppedTable_image(t, dpi, padding, margin, renders)

(***************************************************************************)
(* text_positions, text                                                    *)
(***************************************************************************)
\* outside ignored
text_positions_keeps_inside(rect, w, outside) ==
    is_intersecting(Rect(<<w[1], w[2], w[3], w[4]>>), rect)

\* line 145: whether the page word w is yielded
text_positions_keeps(rect, w, outside) ==
    is_intersecting(Rect(<<w[1], w[2], w[3], w[4]>>), rect) # outside

\* xmin taken off the y coordinates too
text_positions_yield_x(rect, w, remove_table_offset) ==
    IF remove_table_offset
    THEN <<w[1] - rect.xmin, w[2] - rect.xmin, w[3] - rect.xmin, w[4] - rect.xmin, w[5]>>
    ELSE w

\* lines 146-149: the tuple yielded for the page word w
text_positions_yield(rect, w, remove_table_offset) ==
    IF remove_table_offset
    THEN <<w[1] - rect.xmin, w[2] - rect.ymin, w[3] - rect.xmin, w[4] - rect.ymin, w[5]>>
    ELSE w

RECURSIVE CroppedTable_text_positions_loop(_, _, _, _, _)
CroppedTable_text_positions_loop(t, words, i, remove_table_offset, outside) ==
    IF i > Len(words)
    THEN <<>>
    ELSE (IF text_positions_keeps(t.rect, words[i], outside)
          THEN <<text_positions_yield(t.rect, words[i], remove_table_offset)>>
          ELSE <<>>)
         \o CroppedTable_text_positions_loop(t, words, i + 1, remove_table_offset, outside)

CroppedTable_text_positions(t, remove_table_offset, outside) ==
    CroppedTable_text_positions_loop(t, get_positions_and_text(t.page), 1,
                                     remove_table_offset, outside)

\* the 270 branch measuring from the height
rotate_box_height(angle, width, height, w) ==
    IF angle = 90
    THEN <<height - w[4], w[1], height - w[2], w[3], w[5]>>
    ELSE IF angle = 180
    THEN <<width - w[3], height - w[4], width - w[1], height - w[2], w[5]>>
    ELSE IF angle = 270
    THEN <<w[2], height - w[3], w[4], height - w[1], w[5]>>
    ELSE w

\* lines 451-465: an offset-removed box in the frame of the level table
rotate_box(angle, width, height, w) ==
    IF angle = 90
    THEN <<height - w[4], w[1], height - w[2], w[3], w[5]>>
    ELSE IF angle = 180
    THEN <<width - w[3], height - w[4], width - w[1], height - w[2], w[5]>>
    ELSE IF angle = 270
    THEN <<w[2], width - w[3], w[4], width - w[1], w[5]>>
    ELSE w

\* line 449: whether the rotated variant defers to the base class
rotated_defers(angle, remove_table_offset) ==
    angle = 0 \/ remove_table_offset = FALSE

RotatedCroppedTable_text_positions(t, remove_table_offset, outside) ==
    IF rotated_defers(t.angle, remove_table_offset)
    THEN CroppedTable_text_positions(t, remove_table_offset, outside)
    ELSE LET ws == CroppedTable_text_positions(t, TRUE, outside)
         IN  [i \in 1..Len(ws) |->
                 rotate_box(t.angle, Rect_width(t.rect), Rect_height(t.rect), ws[i])]

text_positions(t, remove_table_offset, outside) ==
    IF IsRotated(t)
    THEN RotatedCroppedTable_text_positions(t, remove_table_offset, outside)
    ELSE CroppedTable_text_positions(t, remove_table_offset, outside)

\* line 169
text(t) == position_words(text_positions(t, FALSE, FALSE), 3)

(***************************************************************************)
(* predicted_word_height                                                   *)
(***************************************************************************)
\* 1 / WordHeightDen is the unit of _word_height: 0.95 is 95/100 and the
\* median of an even number of heights is a half
WordHeightDen == 200

\* >= in place of >
height_qualifies_at_least(height, smallest) == 10 * height >= smallest

\* line 183: height > smallest_supported_text_height (given in tenths)
height_qualifies(height, smallest) == 10 * height > smallest

RECURSIVE word_heights_loop(_, _, _)
word_heights_loop(ws, i, smallest) ==
    IF i > Len(ws)
    THEN <<>>
    ELSE (IF height_qualifies(ws[i][4] - ws[i][2], smallest)
          THEN <<ws[i][4] - ws[i][2]>>
          ELSE <<>>)
         \o word_heights_loop(ws, i + 1, smallest)

RECURSIVE SortedInsert(_, _)
SortedInsert(s, x) ==
    IF Len(s) = 0 THEN <<x>>
    ELSE IF x <= Head(s) THEN <<x>> \o s
    ELSE <<Head(s)>> \o SortedInsert(Tail(s), x)

RECURSIVE Sorted(_)
Sorted(s) == IF Len(s) = 0 THEN <<>> ELSE SortedInsert(Sorted(Tail(s)), Head(s))

\* twice numpy.median of a non-empty list: the middle one doubled, or the sum
\* of the two middle ones
median2(heights) ==
    LET s == Sorted(heights)
        n == Len(s)
    IN  IF n % 2 = 1
        THEN 2 * s[(n + 1) \div 2]
        ELSE s[n \div 2] + s[n \div 2 + 1]

\* line 197: 0.95 * np.median(word_heights), in 1 / WordHeightDen
word_height_of(heights) == Num(95 * median2(heights))

\* the region after the call and what the call returns
predicted_word_height(t, smallest) ==
    IF t._word_height # None
    THEN IF t._word_height = Num(0)
         THEN [self |-> t, val |-> Raise("AssertionError")]
         ELSE [self |-> t, val |-> t._word_height]
    ELSE LET word_heights == word_heights_loop(text_positions(t, TRUE, FALSE), 1, smallest)
         IN  IF Len(word_heights) > 0
             THEN LET self == [t EXCEPT !._word_height = word_height_of(word_heights)]
                  IN  IF self._word_height.n > 0
                      THEN [self |-> self, val |-> self._word_height]
                      ELSE [self |-> self, val |-> Raise("AssertionError")]
             ELSE [self |-> [t EXCEPT !._word_height = NaN], val |-> NaN]

(***************************************************************************)
(* captions                                                                *)
(***************************************************************************)
\* gmft.table_captioning._find_captions: the caption pair found for a region
\* with these arguments (line_spacing in tenths)
find_captions(t, margin, line_spacing) ==
    [tag |-> "captions", page |-> t.page, bbox |-> Rect_bbox(t.rect),
     margin |-> margin, line_spacing |-> line_spacing]

\* Python truth of self._captions: None and [] are false, a pair is true
captions_truthy(c) == c.tag = "captions"

\* line 214
captions_cached(t, margin, line_spacing) ==
    captions_truthy(t._captions) /\ (margin = None \/ line_spacing = 25)

captions(t, margin, line_spacing) ==
    IF captions_cached(t, margin, line_spacing)
    THEN [self |-> t, val |-> t._captions]
    ELSE LET self == [t EXCEPT !._captions = find_captions(t, margin, line_spacing)]
         IN  [self |-> self, val |-> self._captions]

(***************************************************************************)
(* to_dict, from_dict                                                      *)
(***************************************************************************)
CroppedTable_to_dict(t) ==
    [filename |-> get_filename(t.page), page_no |-> page_number(t.page),
     bbox |-> Rect_bbox(t.rect), confidence_score |-> t.confidence_score,
     label |-> t.label]

\* d['angle'] = self.angle
dict_with_angle(d, angle) ==
    [k \in DOMAIN d \cup {"angle"} |-> IF k = "angle" THEN angle ELSE d[k]]

RotatedCroppedTable_to_dict(t) == dict_with_angle(CroppedTable_to_dict(t), t.angle)

to_dict(t) ==
    IF IsRotated(t) THEN RotatedCroppedTable_to_dict(t) ELSE CroppedTable_to_dict(t)

\* 'angle' in d
has_angle(d) == "angle" \in DOMAIN d

\* d.get('captions', [])
dict_captions(d) == IF "captions" \in DOMAIN d THEN d.captions ELSE EmptyList

\* lines 263-265 and 479-481: table._captions = ... on a constructed table
with_captions(table_, d) ==
    IF table_.kind = "raise" THEN table_ ELSE [table_ EXCEPT !._captions = dict_captions(d)]

\* lines 263-265
plain_from_dict(d, page) ==
    with_captions(CroppedTable_init(page, d.bbox, d.confidence_score, d.label), d)

\* angle and label passed in each other's place
rotated_from_dict_swapped(d, page) ==
    with_captions(RotatedCroppedTable_init(page, d.bbox, d.confidence_score, d.label, d.angle), d)

\* lines 479-481
rotated_from_dict(d, page) ==
    with_captions(RotatedCroppedTable_init(page, d.bbox, d.confidence_score, d.angle, d.label), d)

\* lines 261-262: each from_dict hands a record of the other variant over
CroppedTable_from_dict(d, page) ==
    IF has_angle(d) THEN rotated_from_dict(d, page) ELSE plain_from_dict(d, page)

\* lines 477-478
RotatedCroppedTable_from_dict(d, page) ==
    IF ~has_angle(d) THEN plain_from_dict(d, page) ELSE rotated_from_dict(d, page)

from_dict(entry, d, page) ==
    IF entry = "RotatedCroppedTable"
    THEN RotatedCroppedTable_from_dict(d, page)
    ELSE CroppedTable_from_dict(d, page)

(***************************************************************************)
(* TableDetector.extract                                                   *)
(***************************************************************************)
\* every label but 0 taken for a rotated table
extract_table_nonzero(page, bbox, confidence_score, label) ==
    IF label # 0
    THEN RotatedCroppedTable_init(page, bbox, confidence_score, 90, label)
    ELSE CroppedTable_init(page, bbox, confidence_score, label)

\* lines 379-382: the table built for one detection
extract_table(page, bbox, confidence_score, label) ==
    IF label = 1
    THEN RotatedCroppedTable_init(page, bbox, confidence_score, 90, label)
    ELSE CroppedTable_init(page, bbox, confidence_score, label)

\* lines 374-383; results: what post_process_object_detection returned
RECURSIVE extract_loop(_, _, _, _)
extract_loop(page, results, i, tables) ==
    IF i > Len(results)
    THEN tables
    ELSE extract_loop(page, results, i + 1,
             Append(tables, extract_table(page, results[i].box, results[i].score,
                                          results[i].label)))

extract(page, results) == extract_loop(page, results, 1, <<>>)

(***************************************************************************)
(* The calls a client makes, with the arguments it may pass                *)
(***************************************************************************)
MaxDetections == 2

\* (box, score in hundredths, label) as the detection model reports them
Detections ==
    {[box |-> <<0, 0, 20, 20>>, score |-> 95, label |-> 0],
     [box |-> <<10, 8, 50, 28>>, score |-> 90, label |-> 1],
     [box |-> <<10, 8, 50, 28>>, score |-> 99, label |-> 2]}

Angles == {0, 45, 90, 180, 270}

\* (dpi, padding, margin) as passed to image: every default, every 'auto',
\* explicit tuples, and a resolution alone
ImageArgs ==
    {<<None, None, None>>,
     <<Some(144), Auto, Auto>>,
     <<None, Some(<<1, 2, 3, 4>>), Some(<<5, 5, 5, 5>>)>>,
     <<Some(144), None, None>>}

\* smallest_supported_text_height in tenths: 0.1 is the default
SmallestArgs == {-1, 1, 10}

CaptionMarginArgs == {None, Some(10)}

\* line_spacing in tenths: 2.5 is the default
LineSpacingArgs == {25, 30}

\* records that no to_dict wrote: an unsupported angle, embedded captions
StoredDicts ==
    {[filename |-> "a.pdf", page_no |-> 0, bbox |-> <<0, 0, 20, 20>>,
      confidence_score |-> 95, label |-> 0, angle |-> 45],
     [filename |-> "a.pdf", page_no |-> 0, bbox |-> <<0, 0, 20, 20>>,
      confidence_score |-> 95, label |-> 0,
      captions |-> [tag |-> "captions", page |-> "pA", bbox |-> <<0, 0, 20, 20>>,
                    margin |-> None, line_spacing |-> 25]]}

DetectionLists ==
    UNION {[1..n -> Detections] : n \in 0..MaxDetections}

\* Regions share nothing but the page, which no call writes, so the model
\* follows one region: table is the region the client works with (NoTable
\* before it has one) and ret is what the last call was, the region it was
\* made on as it was before the call (self), and what it returned (val).
Init ==
    /\ table = NoTable
    /\ ret = [op |-> "start"]

NewCroppedTable(page, det) ==
    /\ table = NoTable
    /\ table' = CroppedTable_init(page, det.box, det.score, det.label)
    /\ ret' = [op |-> "CroppedTable", val |-> table']

NewRotatedCroppedTable(page, det, angle) ==
    /\ table = NoTable
    /\ LET r == RotatedCroppedTable_init(page, det.box, det.score, angle, det.label)
       IN  /\ table' = IF r.kind = "raise" THEN table ELSE r
           /\ ret' = [op |-> "RotatedCroppedTable", angle |-> angle, val |-> r]

CallImage(dpi, padding, margin, renders) ==
    /\ IsTable(table)
    /\ LET r == image(table, dpi, padding, margin, renders)
       IN  /\ table' = r.self
           /\ ret' = [op |-> "image", self |-> table, dpi |-> dpi, padding |-> padding,
                      margin |-> margin, val |-> r.val]

CallTextPositions(remove_table_offset, outside) ==
    /\ IsTable(table)
    /\ ret' = [op |-> "text_positions", self |-> table,
               remove_table_offset |-> remove_table_offset,
               outside |-> outside,
               val |-> text_positions(table, remove_table_offset, outside)]
    /\ UNCHANGED table

CallText ==
    /\ IsTable(table)
    /\ ret' = [op |-> "text", self |-> table, val |-> text(table)]
    /\ UNCHANGED table

CallPredictedWordHeight(smallest) ==
    /\ IsTable(table)
    /\ LET r == predicted_word_height(table, smallest)
       IN  /\ table' = r.self
           /\ ret' = [op |-> "predicted_word_height", self |-> table,
                      smallest |-> smallest, val |-> r.val]

CallCaptions(margin, line_spacing) ==
    /\ IsTable(table)
    /\ LET r == captions(table, margin, line_spacing)
       IN  /\ table' = r.self
           /\ ret' = [op |-> "captions", self |-> table, margin |-> margin,
                      line_spacing |-> line_spacing, val |-> r.val]

CallToDict ==
    /\ IsTable(table)
    /\ ret' = [op |-> "to_dict", self |-> table, val |-> to_dict(table)]
    /\ UNCHANGED table

\* from_dict on the record the region's to_dict just wrote
CallFromDictWritten(entry, page) ==
    /\ ret.op = "to_dict"
    /\ ret' = [op |-> "from_dict", entry |-> entry, page |-> page, d |-> ret.val,
               written |-> TRUE, val |-> from_dict(entry, ret.val, page)]
    /\ UNCHANGED table

\* from_dict on a stored record
CallFromDictStored(entry, page, d) ==
    /\ table = NoTable
    /\ ret' = [op |-> "from_dict", entry |-> entry, page |-> page, d |-> d,
               written |-> FALSE, val |-> from_dict(entry, d, page)]
    /\ UNCHANGED table

CallExtract(page, results) ==
    /\ table = NoTable
    /\ ret' = [op |-> "extract", page |-> page, results |-> results,
               val |-> extract(page, results)]
    /\ UNCHANGED table

\* the client goes on with a table that extract returned (table = tables[0])
UseExtracted(i) ==
    /\ ret.op = "extract"
    /\ i \in 1..Len(ret.val)
    /\ table' = ret.val[i]
    /\ ret' = [op |-> "use"]

\* the client goes on with the table that from_dict returned
UseDeserialized ==
    /\ ret.op = "from_dict"
    /\ IsTable(ret.val)
    /\ table' = ret.val
    /\ ret' = [op |-> "use"]

Next ==
    \/ \E page \in Pages, det \in Detections : NewCroppedTable(page, det)
    \/ \E page \in Pages, det \in Detections, angle \in Angles :
          NewRotatedCroppedTable(page, det, angle)
    \/ \E args \in ImageArgs, renders \in BOOLEAN :
          CallImage(args[1], args[2], args[3], renders)
    \/ \E remove_table_offset \in BOOLEAN, outside \in BOOLEAN :
          CallTextPositions(remove_table_offset, outside)
    \/ CallText
    \/ \E smallest \in SmallestArgs : CallPredictedWordHeight(smallest)
    \/ \E margin \in CaptionMarginArgs, line_spacing \in LineSpacingArgs :
          CallCaptions(margin, line_spacing)
    \/ CallToDict
    \/ \E entry \in {"CroppedTable", "RotatedCroppedTable"}, page \in Pages :
          CallFromDictWritten(entry, page)
    \/ \E entry \in {"CroppedTable", "RotatedCroppedTable"}, page \in Pages,
          d \in StoredDicts : CallFromDictStored(entry, page, d)
    \/ \E page \in Pages, results \in DetectionLists : CallExtract(page, results)
    \/ \E i \in 1..MaxDetections : UseExtracted(i)
    \/ UseDeserialized

Spec == Init /\ [][Next]_vars

(***************************************************************************)
(* position_words on its own: every word sequence up to MaxWords           *)
(***************************************************************************)
MaxWords == 3

LineWords ==
    {<<0, 0, 10, 10, "A">>, <<12, 0, 20, 10, "B">>,
     <<0, 20, 10, 30, "C">>, <<0, 8, 10, 12, "D">>}

YGapArgs == {3, 20}

WordLists == UNION {[1..n -> LineWords] : n \in 0..MaxWords}

CallPositionWords(words, y_gap) ==
    /\ ret' = [op |-> "position_words", words |-> words, y_gap |-> y_gap,
               val |-> position_words(words, y_gap)]
    /\ UNCHANGED table

NextWords == \E words \in WordLists, y_gap \in YGapArgs : CallPositionWords(words, y_gap)

SpecWords == Init /\ [][NextWords]_vars

(***************************************************************************)
(* The rotation transforms on their own: every box inside a region of      *)
(* every size up to MaxSide                                                *)
(***************************************************************************)
MaxSide == 3

BoxesIn(width, height) ==
    {b \in {<<x0, y0, x1, y1, "w">> : x0 \in 0..width, y0 \in 0..height,
                                      x1 \in 0..width, y1 \in 0..height} :
        b[1] <= b[3] /\ b[2] <= b[4]}

\* the angle whose transform is to undo angle's
back_angle(angle) == (360 - angle) % 360

\* the transform text_positions applies for a region of width x height
ApplyRotation(angle, width, height, box) ==
    /\ ret.op = "start"
    /\ ret' = [op |-> "rotate", angle |-> angle, width |-> width, height |-> height,
               box |-> box, val |-> rotate_box(angle, width, height, box)]
    /\ UNCHANGED table

\* then the transform for the opposite angle: for the same region, or for
\* the region as it lies once turned (its sides swapped by a quarter turn)
ApplyRotationBack(turned) ==
    /\ ret.op = "rotate"
    /\ LET swap   == turned /\ ret.angle \in {90, 270}
           width  == IF swap THEN ret.height ELSE ret.width
           height == IF swap THEN ret.width ELSE ret.height
       IN  ret' = [op |-> "rotate_back", angle |-> ret.angle, width |-> ret.width,
                   height |-> ret.height, box |-> ret.box, turned |-> turned,
                   val |-> rotate_box(back_angle(ret.angle), width, height, ret.val)]
    /\ UNCHANGED table

NextRotation ==
    \/ \E angle \in {90, 180, 270}, width \in 1..MaxSide, height \in 1..MaxSide :
          \E box \in BoxesIn(width, height) : ApplyRotation(angle, width, height, box)
    \/ \E turned \in BOOLEAN : ApplyRotationBack(turned)

SpecRotation == Init /\ [][NextRotation]_vars

(***************************************************************************)
(* Properties                                                              *)
(***************************************************************************)
Range(s) == {s[i] : i \in 1..Len(s)}

Texts(ws) == [i \in 1..Len(ws) |-> ws[i][5]]

SupportedAngles == {0, 90, 180, 270}

\* C1: Serialization round-trip: from_dict on the record a region's to_dict
\* wrote returns a region of the same variant on the page given, with the
\* same rect/bbox, confidence_score, label and, if rotated, angle, whichever
\* from_dict is the entry point; a record without an 'angle' key always
\* yields a plain CroppedTable.
SerializationRoundTrip ==
    ret.op = "from_dict" =>
        /\ ret.written =>
              /\ ret.val.kind = table.kind
              /\ ret.val.page = ret.page
              /\ ret.val.rect = table.rect
              /\ Rect_bbox(ret.val.rect) = ret.d.bbox
              /\ ret.val.confidence_score = table.confidence_score
              /\ ret.val.label = table.label
              /\ IsRotated(table) => ret.val.angle = table.angle
        /\ "angle" \notin DOMAIN ret.d => ret.val.kind = "CroppedTable"

\* a rotated region came back through CroppedTable.from_dict
SerializationRoundTripWitness ==
    /\ ret.op = "from_dict"
    /\ ret.written
    /\ ret.entry = "CroppedTable"
    /\ ret.page = table.page
    /\ IsRotated(table)
    /\ table.angle = 270
    /\ table.label = 2
    /\ ret.val.kind = "RotatedCroppedTable"

\* C2 as stated: for a region of width W and height H, the transform for
\* angle a followed by the transform for (360 - a) mod 360, both for that
\* region, returns the original box.
RotationCompositionSameRegion ==
    (ret.op = "rotate_back" /\ ~ret.turned) => ret.val = ret.box

\* C2: Rotation composition law, amended: the transform for angle a followed
\* by the transform for (360 - a) mod 360 returns the original box when the
\* second is taken for the region as it lies once turned (sides swapped for
\* 90 and 270); taken for the same region it does so exactly when a = 180
\* or the region is square.
RotationComposition ==
    ret.op = "rotate_back" =>
        /\ ret.turned => ret.val = ret.box
        /\ ~ret.turned =>
              (ret.val = ret.box <=> (ret.angle = 180 \/ ret.width = ret.height))

\* a quarter turn of a region that is not square was undone
RotationCompositionWitness ==
    /\ ret.op = "rotate_back"
    /\ ret.turned
    /\ ret.angle = 90
    /\ ret.width = 3
    /\ ret.height = 1
    /\ ret.box = <<1, 0, 3, 1, "w">>
    /\ ret.val = ret.box

\* whether a page word's box intersects the region's rect
WordIntersects(w) == is_intersecting(Rect(<<w[1], w[2], w[3], w[4]>>), table.rect)

WordOutside(w) == ~WordIntersects(w)

TextPositionsPartition ==
    LET words  == get_positions_and_text(table.page)
        wanted == IF ret.outside
                  THEN SelectSeq(words, WordOutside)
                  ELSE SelectSeq(words, WordIntersects)
        inside  == text_positions(table, FALSE, FALSE)
        outside == text_positions(table, FALSE, TRUE)
    IN  /\ Texts(ret.val) = Texts(wanted)
        /\ ~ret.remove_table_offset => ret.val = wanted
        /\ Len(inside) + Len(outside) = Len(words)
        /\ \A i \in 1..Len(words) :
              (words[i] \in Range(inside)) # (words[i] \in Range(outside))

\* C3: Inside/outside partition: text_positions(outside=False) yields exactly
\* the page words whose box intersects the region's rect and
\* text_positions(outside=True) exactly the others, each in the page's word
\* order, every page word in exactly one of the two, and the call changes no
\* field of the region.
InsideOutsidePartition ==
    ret.op = "text_positions" => (table = ret.self /\ TextPositionsPartition)

\* the words outside a region that holds some of the page's words
InsideOutsidePartitionWitness ==
    /\ ret.op = "text_positions"
    /\ ret.outside
    /\ ~ret.remove_table_offset
    /\ table.page = "pA"
    /\ Texts(ret.val) = <<"b", "d", "e">>

\* C4: Detection construction: extract returns one region per detection, in
\* the detections' order, each with that detection's box, score and the
\* page; label 1 gives a RotatedCroppedTable with angle 90, any other label
\* a plain CroppedTable with the label unchanged.
DetectionConstruction ==
    ret.op = "extract" =>
        /\ Len(ret.val) = Len(ret.results)
        /\ \A i \in 1..Len(ret.results) :
              LET t == ret.val[i]
                  det == ret.results[i]
              IN  /\ Rect_bbox(t.rect) = det.box
                  /\ t.confidence_score = det.score
                  /\ t.page = ret.page
                  /\ t.label = det.label
                  /\ det.label = 1 => (t.kind = "RotatedCroppedTable" /\ t.angle = 90)
                  /\ det.label # 1 => t.kind = "CroppedTable"

\* a rotated detection followed by one with a label other than 0 and 1
DetectionConstructionWitness ==
    /\ ret.op = "extract"
    /\ Len(ret.results) = 2
    /\ ret.results[1].label = 1
    /\ ret.results[2].label = 2
    /\ ret.val[1].kind = "RotatedCroppedTable"
    /\ ret.val[2].kind = "CroppedTable"

\* the text position_words is to give: each later word joined to what
\* precedes it by a newline or a space, by its distance to the word just
\* before it
RECURSIVE LinesOf(_, _)
LinesOf(words, y_gap) ==
    LET n == Len(words)
    IN  IF n = 0 THEN ""
        ELSE IF n = 1 THEN words[1][5]
        ELSE LinesOf(SubSeq(words, 1, n - 1), y_gap)
             \o (IF Abs(words[n][4] - words[n - 1][4]) >= y_gap THEN "\n" ELSE " ")
             \o words[n][5]

\* C5: Line reconstruction: position_words gives "" for no words, otherwise
\* the first word's text followed by each later word's text after a newline
\* when its bottom is y_gap or more from the bottom of the word just before
\* it and after a space otherwise; the example of three words gives
\* "A B", newline, "C".
LineReconstruction ==
    ret.op = "position_words" =>
        /\ ret.val = LinesOf(ret.words, ret.y_gap)
        /\ ret.words = <<>> => ret.val = ""
        /\ (/\ ret.words = << <<0, 0, 10, 10, "A">>, <<12, 0, 20, 10, "B">>,
                              <<0, 20, 10, 30, "C">> >>
            /\ ret.y_gap = 3) => ret.val = "A B\nC"

\* a word after a lower one: only the word just before it counts
LineReconstructionWitness ==
    /\ ret.op = "position_words"
    /\ ret.y_gap = 3
    /\ ret.words = << <<0, 20, 10, 30, "C">>, <<0, 0, 10, 10, "A">>,
                      <<12, 0, 20, 10, "B">> >>
    /\ ret.val = "C\nA B"

\* every region there is: the client's, and those the last call returned
Regions ==
    (IF IsTable(table) THEN {table} ELSE {})
    \cup (IF ret.op \in {"CroppedTable", "RotatedCroppedTable", "from_dict"}
             /\ IsTable(ret.val)
          THEN {ret.val} ELSE {})
    \cup (IF ret.op = "extract" THEN Range(ret.val) ELSE {})

\* C6: Angle validity: a RotatedCroppedTable constructed with an angle
\* outside {0, 90, 180, 270} raises and produces no object, so every
\* RotatedCroppedTable there is has one of these angles.
AngleValidity ==
    /\ \A t \in Regions : IsRotated(t) => t.angle \in SupportedAngles
    /\ (ret.op = "RotatedCroppedTable" /\ ret.angle \notin SupportedAngles) =>
          (ret.val = Raise("ValueError") /\ table = NoTable)
    /\ (ret.op = "from_dict" /\ "angle" \in DOMAIN ret.d
        /\ ret.d.angle \notin SupportedAngles) => ret.val = Raise("ValueError")

\* the constructor refused 45 degrees
AngleValidityWitness ==
    /\ ret.op = "RotatedCroppedTable"
    /\ ret.angle = 45
    /\ ret.val.kind = "raise"
    /\ table = NoTable

\* a word's height in the frame of the level table: its page-space extent
\* along y, or along x in a region a quarter turn off
HeightInTable(t, w) ==
    IF IsRotated(t) /\ t.angle \in {90, 270} THEN w[3] - w[1] ELSE w[4] - w[2]

\* the heights above the threshold (in tenths) of the words that intersect
\* the region the call was made on
ExceedsSmallest(h) == 10 * h > ret.smallest

QualifyingHeights ==
    LET t  == ret.self
        ws == SelectSeq(get_positions_and_text(t.page), WordIntersects)
    IN  SelectSeq([i \in 1..Len(ws) |-> HeightInTable(t, ws[i])], ExceedsSmallest)

\* the k-th smallest of hs: fewer than k lie below it, at least k at or below
KthSmallest(hs, k) ==
    CHOOSE v \in Range(hs) :
        /\ Cardinality({i \in 1..Len(hs) : hs[i] < v}) < k
        /\ Cardinality({i \in 1..Len(hs) : hs[i] <= v}) >= k

\* twice the median
TwiceMedian(hs) ==
    LET n == Len(hs)
    IN  IF n % 2 = 1
        THEN 2 * KthSmallest(hs, (n + 1) \div 2)
        ELSE KthSmallest(hs, n \div 2) + KthSmallest(hs, n \div 2 + 1)

FirstWordHeightCall ==
    ret.op = "predicted_word_height" /\ ret.self._word_height = None

\* C7 as stated: the first predicted_word_height(t) returns 0.95 x the
\* median of the heights above t, and the not-a-number sentinel when there
\* is none.
WordHeightPolicyAsStated ==
    FirstWordHeightCall =>
        ret.val = IF Len(QualifyingHeights) = 0
                  THEN NaN
                  ELSE Num(95 * TwiceMedian(QualifyingHeights))

\* C7: Word-height policy, amended: the first predicted_word_height(t)
\* returns the not-a-number sentinel when no height exceeds t and otherwise
\* 0.95 x the median of the heights above t when that is positive, which it
\* is for every t >= 0; when it is not, the call fails with an assertion.
\* Heights are taken in the level table's frame, heights at or below t never
\* count, and heights 1, 1, 2, 100 with t = 0.1 give 1.425.
WordHeightPolicy ==
    FirstWordHeightCall =>
        LET hs == QualifyingHeights
        IN  /\ Len(hs) = 0 => (ret.val = NaN /\ table._word_height = NaN)
            /\ (Len(hs) > 0 /\ TwiceMedian(hs) > 0) =>
                  /\ ret.val = Num(95 * TwiceMedian(hs))
                  /\ table._word_height = ret.val
            /\ (Len(hs) > 0 /\ TwiceMedian(hs) <= 0) =>
                  ret.val = Raise("AssertionError")
            /\ ret.smallest >= 0 => ret.val # Raise("AssertionError")
            /\ (hs = <<1, 1, 2, 100>> /\ ret.smallest = 1) =>
                  1000 * ret.val.n = 1425 * WordHeightDen

\* the example: heights 1, 1, 2, 100 and the default threshold
WordHeightPolicyWitness ==
    /\ FirstWordHeightCall
    /\ ret.smallest = 1
    /\ table.kind = "CroppedTable"
    /\ QualifyingHeights = <<1, 1, 2, 100>>
    /\ ret.val = Num(285)

\* C8: Offset round-trip: for a plain region, or a rotated one with angle 0,
\* text_positions(remove_table_offset=True) returns as many words, in the
\* same order, as text_positions(remove_table_offset=False); each box moved
\* back by (xmin, ymin) is the page-space box of the same word, the text
\* unchanged; the rotated region with angle 0 yields what the base does.
OffsetRoundTrip ==
    (ret.op = "text_positions" /\ (~IsRotated(table) \/ table.angle = 0)) =>
        LET page_space == text_positions(table, FALSE, ret.outside)
            xmin == table.rect.xmin
            ymin == table.rect.ymin
        IN  /\ Len(ret.val) = Len(page_space)
            /\ ret.remove_table_offset =>
                  \A i \in 1..Len(ret.val) :
                      <<ret.val[i][1] + xmin, ret.val[i][2] + ymin,
                        ret.val[i][3] + xmin, ret.val[i][4] + ymin,
                        ret.val[i][5]>> = page_space[i]
            /\ ret.val = CroppedTable_text_positions(table, ret.remove_table_offset,
                                                     ret.outside)

\* a rotated region with angle 0, away from the page's corner, lost its offset
OffsetRoundTripWitness ==
    /\ ret.op = "text_positions"
    /\ ret.remove_table_offset
    /\ ~ret.outside
    /\ IsRotated(table)
    /\ table.angle = 0
    /\ table.page = "pA"
    /\ table.rect = Rect(<<10, 8, 50, 28>>)
    /\ ret.val[1] = <<2, 4, 10, 5, "a">>

MethodCalls ==
    {"image", "text_positions", "text", "predicted_word_height", "captions", "to_dict"}

CacheFields ==
    {"_img", "_img_dpi", "_img_padding", "_img_margin", "_word_height", "_captions"}

\* C9: Identity is immutable: image, text_positions, text,
\* predicted_word_height, captions and to_dict leave the region's page, rect,
\* confidence_score, label and angle as they were; they change cache fields
\* only.
IdentityImmutable ==
    ret.op \in MethodCalls =>
        /\ DOMAIN table = DOMAIN ret.self
        /\ \A f \in DOMAIN table \ CacheFields : table[f] = ret.self[f]

\* a rotated region with every cache filled, serialized
IdentityImmutableWitness ==
    /\ ret.op = "to_dict"
    /\ IsRotated(table)
    /\ table.angle = 90
    /\ table._img # None
    /\ table._img_margin # None
    /\ table._word_height # None
    /\ table._captions # None

\* C10 as stated: after a successful image call on a plain or rotated
\* region, the cached image is the image the call returned.
ImageCacheHoldsReturned ==
    (ret.op = "image" /\ ret.val.kind = "image") => table._img = Some(ret.val)

\* rect grown by a margin (left, top, right, bottom), as a bbox
Grown(rect, m) == <<rect.xmin - m[1], rect.ymin - m[2], rect.xmax + m[3], rect.ymax + m[4]>>

\* C10: Image cache is last-call-wins, amended: after a successful image
\* call the cached image is the one this call rendered from the page with
\* its own arguments and the cached dpi, padding and margin are what it was
\* rendered with; the call returns that image from a plain region or one
\* with angle 0, and that image turned by -angle from a rotated one, whose
\* cache keeps the unturned image; a call whose rendering fails leaves the
\* region as it was.
ImageCacheLastCallWins ==
    ret.op = "image" =>
        IF ret.val.kind = "raise"
        THEN table = ret.self
        ELSE LET img == table._img.v
                 dpi == IF ret.dpi = None THEN 72 ELSE ret.dpi.v
                 pad == table._img_padding.v
                 longer == Max(Rect_width(table.rect), Rect_height(table.rect))
             IN  /\ table._img.tag = "value"
                 /\ img.page = table.page
                 /\ img.dpi = dpi
                 /\ table._img_dpi = Some(dpi)
                 /\ img.pad = pad
                 /\ ret.padding = None => pad = <<0, 0, 0, 0>>
                 /\ ret.padding.tag = "value" => pad = ret.padding.v
                 /\ ret.padding = Auto =>
                       /\ pad = <<pad[1], pad[1], pad[1], pad[1]>>
                       /\ 720 * pad[1] <= longer * dpi
                       /\ longer * dpi < 720 * (pad[1] + 1)
                 /\ ret.margin = None =>
                       (table._img_margin = None /\ img.crop = Rect_bbox(table.rect))
                 /\ ret.margin.tag = "value" => table._img_margin = ret.margin
                 /\ ret.margin = Auto => table._img_margin = Some(<<30, 30, 30, 30>>)
                 /\ table._img_margin # None =>
                       img.crop = Grown(table.rect, table._img_margin.v)
                 /\ ret.val = IF IsRotated(table) /\ table.angle # 0
                              THEN [img EXCEPT !.rot = (360 - table.angle) % 360]
                              ELSE img
                 /\ \A f \in DOMAIN table \ {"_img", "_img_dpi", "_img_padding", "_img_margin"} :
                       table[f] = ret.self[f]

\* a second, different rendering of a region a quarter turn off replaced
\* the first
ImageCacheLastCallWinsWitness ==
    /\ ret.op = "image"
    /\ ret.val.kind = "image"
    /\ IsRotated(table)
    /\ table.angle = 90
    /\ ret.self._img # None
    /\ ret.self._img # table._img
    /\ ret.self._img_padding # table._img_padding
    /\ ret.val.rot = 270

\* what the caption finder gives for the region the call was made on, for
\* any arguments a client passes
FinderResults ==
    {find_captions(ret.self, m, l) : m \in CaptionMarginArgs, l \in LineSpacingArgs}

\* the region's cache held nothing, or a result the finder gave for it
CaptionsFromCalls ==
    ret.self._captions \in {None, EmptyList} \cup FinderResults

DefaultCaptionsCall == ret.margin = None /\ ret.line_spacing = 25

\* C11: Caption caching only for default calls: over any sequence of
\* captions calls on a region, a call with default arguments (margin=None,
\* line_spacing=2.5) returns the caption finder's result for default
\* arguments, and a call with another margin or line_spacing returns what
\* the finder gives for those arguments, never the cache, and leaves what a
\* default call returns as it was.
CaptionsCachedOnlyForDefaultCalls ==
    (ret.op = "captions" /\ CaptionsFromCalls) =>
        /\ ret.val = find_captions(ret.self, ret.margin, ret.line_spacing)
        /\ ~DefaultCaptionsCall =>
              (captions_truthy(ret.self._captions) => table._captions = ret.self._captions)

\* a call on a region whose first call has returned: the cache holds the
\* not-a-number sentinel or a positive number
LaterWordHeightCall ==
    /\ ret.op = "predicted_word_height"
    /\ ret.self._word_height # None
    /\ (ret.self._word_height = NaN \/ ret.self._word_height.n > 0)

\* once the first predicted_word_height call has returned, every later call
\* returns the cached result whatever threshold is passed, and no other
\* method writes the cache
WordHeightComputedOnce ==
    /\ LaterWordHeightCall => (ret.val = ret.self._word_height /\ table = ret.self)
    /\ ret.op \in MethodCalls \ {"predicted_word_height"} =>
          table._word_height = ret.self._word_height

\* a zero word height is never stored
WordHeightNeverZero ==
    IsTable(table) => table._word_height # Num(0)

\* C12: Word height is computed once: after the first predicted_word_height
\* call on a region has returned, every later call returns that same result,
\* whatever threshold is passed and whatever ran in between; the cached value
\* is never 0, a zero value making the call fail with an assertion instead
\* of being stored or returned.
WordHeightComputedOnceNeverZero ==
    /\ WordHeightComputedOnce
    /\ WordHeightNeverZero
    /\ ret.op = "predicted_word_height" => ret.val # Num(0)

====
